---------------------------- MODULE Spec2Model ----------------------------
(***************************************************************************)
(* Model of code/import_script.py: pairing of behaviour and photometry     *)
(* file names by (subject ID, date), the load/align loop with its three    *)
(* outcome lists, the printed report, and the time conversions of the      *)
(* aligner attached to each good session.                                  *)
(*                                                                         *)
(* A file name is a sequence of one-character strings.  Python's None is   *)
(* the one-element sequence <<"None">>, which no file name can equal.      *)
(***************************************************************************)
EXTENDS Integers, Sequences, FiniteSets, TLC

VARIABLES
    photometry_filenames,  \* os.listdir(photometry_data_folder)
    behaviour_filenames,   \* os.listdir(behaviour_data_folder)
    coresponding_files,    \* [(behaviour_filename, photometry_filename)]
    bi,                    \* position of the pairing loop (next behaviour index)
    sessions,              \* list of sessions with attached photometry data
    sync_errors,           \* list of (b, p) where the sync pulses do not align
    li,                    \* position of the load/align loop (next pair index)
    calls,                 \* the Rsync_aligner(...) calls made so far, with how each ended
    exc,                   \* the uncaught exception that ended the script, or "none"
    missing_sessions,      \* behaviour names without photometry file
    printed,               \* lines written by print(), in order
    reported,              \* the report section (lines 80-93) has run
    conv                   \* last conversion made through a session's aligner

vars == <<photometry_filenames, behaviour_filenames, coresponding_files, bi,
          sessions, sync_errors, li, calls, exc, missing_sessions, printed,
          reported, conv>>

-----------------------------------------------------------------------------
(* Bounds of the model *)

MaxBehaviour == 3      \* longest behaviour folder listing
MaxPhotometry == 2     \* longest photometry folder listing

(* Program constants *)

SubjectLen == 4        \* filename[:4]
DateLen == 10          \* ...[:10]
MsPerSecond == 1000    \* units_B = 1000 / sampling_rate

None == <<"None">>

-----------------------------------------------------------------------------
(* File names of the two folders *)

N_m001_txt == <<"m","0","0","1","-","2","0","1","9","-","0","1","-","0","1",".","t","x","t">>
N_m001_ppd == <<"m","0","0","1","-","2","0","1","9","-","0","1","-","0","1",".","p","p","d">>
N_m001b_ppd == <<"m","0","0","1","-","2","0","1","9","-","0","1","-","0","1","b",".","p","p","d">>
N_m001b_txt == <<"m","0","0","1","-","2","0","1","9","-","0","1","-","0","1","b",".","t","x","t">>
N_m002_txt == <<"m","0","0","2","-","2","0","1","9","-","0","1","-","0","1",".","t","x","t">>
N_m002_day2_ppd == <<"m","0","0","2","-","2","0","1","9","-","0","1","-","0","2",".","p","p","d">>
N_short == <<"a","-","b">>
N_nodash == <<"a","b","c">>

BehaviourNames == {N_m001_txt, N_m001b_txt, N_m002_txt, N_short, N_nodash}
PhotometryNames == {N_m001_ppd, N_m001b_ppd, N_m002_day2_ppd, N_short, N_nodash}

Min(a, b) == IF a < b THEN a ELSE b

(* A directory listing: distinct names, in any order *)
Listings(names, maxLen) ==
    { s \in UNION { [1..n -> names] : n \in 0..maxLen } :
        \A i, j \in 1..Len(s) : i /= j => s[i] /= s[j] }

-----------------------------------------------------------------------------
(* _get_file_info *)

HasDash(filename) == \E k \in 1..Len(filename) : filename[k] = "-"

FirstDash(filename) ==
    CHOOSE k \in 1..Len(filename) :
        /\ filename[k] = "-"
        /\ \A m \in 1..(k - 1) : filename[m] /= "-"

(* s[:n] *)
Prefix(s, n) == SubSeq(s, 1, Min(n, Len(s)))

(* filename.split('-', 1)[1]; IndexError when there is no '-' *)
AfterFirstDash(filename) == SubSeq(filename, FirstDash(filename) + 1, Len(filename))

(* Faulty variant: a name shorter than the subject ID raises as well *)
GetFileInfoRaises_short(filename) == ~HasDash(filename) \/ Len(filename) < SubjectLen

GetFileInfoRaises(filename) == ~HasDash(filename)

(* Faulty variant: the date is not cut to its ten characters *)
_get_file_info_whole_tail(filename) ==
    <<Prefix(filename, SubjectLen), AfterFirstDash(filename)>>

_get_file_info(filename) ==
    <<Prefix(filename, SubjectLen), Prefix(AfterFirstDash(filename), DateLen)>>

(* next((f_name for f_name in photometry_filenames                         *)
(*       if b_file_info == _get_file_info(f_name)), None)                  *)
(* The generator is lazy: names after the first match are not examined.    *)
(* Faulty variant: the last matching name wins *)
RECURSIVE NextMatch_last(_, _, _)
NextMatch_last(b_file_info, names, j) ==
    IF j > Len(names) THEN [raised |-> FALSE, value |-> None]
    ELSE IF GetFileInfoRaises(names[j]) THEN [raised |-> TRUE, value |-> None]
    ELSE LET later == NextMatch_last(b_file_info, names, j + 1) IN
         IF later.raised \/ later.value /= None THEN later
         ELSE IF b_file_info = _get_file_info(names[j])
              THEN [raised |-> FALSE, value |-> names[j]]
              ELSE later

RECURSIVE NextMatch(_, _, _)
NextMatch(b_file_info, names, j) ==
    IF j > Len(names) THEN [raised |-> FALSE, value |-> None]
    ELSE IF GetFileInfoRaises(names[j]) THEN [raised |-> TRUE, value |-> None]
    ELSE IF b_file_info = _get_file_info(names[j])
         THEN [raised |-> FALSE, value |-> names[j]]
    ELSE NextMatch(b_file_info, names, j + 1)

-----------------------------------------------------------------------------
(* if p_file_name: -- None and the empty string are both false *)
Truthy(p_file_name) == p_file_name /= None /\ p_file_name /= <<>>

-----------------------------------------------------------------------------
(* Exact rational numbers <<numerator, denominator>>, denominator > 0,     *)
(* in lowest terms: the arithmetic of the clock model.                     *)

Abs(n) == IF n < 0 THEN -n ELSE n

RECURSIVE GCD(_, _)
GCD(m, n) == IF n = 0 THEN m ELSE GCD(n, m % n)

Rat(n, d) ==
    LET g == GCD(Abs(n), Abs(d))
        sgn == IF d < 0 THEN -1 ELSE 1
    IN  <<sgn * (n \div g), sgn * (d \div g)>>

RAdd(x, y) == Rat(x[1] * y[2] + y[1] * x[2], x[2] * y[2])
RMul(x, y) == Rat(x[1] * y[1], x[2] * y[2])
RNeg(x) == <<-x[1], x[2]>>
RInv(x) == Rat(x[2], x[1])

(* Faulty variant: the inverse intercept is stored as -b *)
ClockModel_inverse_intercept(a, b) ==
    [a |-> a, b |-> b, inv_a |-> RInv(a), inv_b |-> RNeg(b)]

(* The fitted clock model time_B = a * time_A + b, stored together with    *)
(* its inverse (1/a, -b/a).                                                *)
ClockModel(a, b) ==
    [a |-> a, b |-> b, inv_a |-> RInv(a), inv_b |-> RNeg(RMul(b, RInv(a)))]

A_to_B(aligner, t) == RAdd(RMul(aligner.a, t), aligner.b)
B_to_A(aligner, t) == RAdd(RMul(aligner.inv_a, t), aligner.inv_b)

(* Slopes and intercepts a fit can produce; the slope is positive *)
Slopes == {Rat(1, 1), Rat(2, 3)}
Intercepts == {Rat(-7, 2)}

(* Times handed to a conversion, inside and outside the pulse range *)
Times == {Rat(-1000, 1), Rat(7, 3), Rat(4000, 1)}

(* photo_data['sampling_rate'] as read from a photometry file *)
SamplingRates == {0, 1000}

(* The clock models a successful construction can hold *)
FittedModels == {ClockModel(a, b) : a \in Slopes, b \in Intercepts}

(* How Rsync_aligner(pulse_times_A, pulse_times_B, units_B) can end:       *)
(* a usable aligner, AlignmentFailure (RsyncError), or a MalformedInput    *)
(* error, which is the only end for a non-positive unit scale.             *)
Rsync_aligner(units_B) ==
    IF units_B <= 0 THEN {"MalformedInput"}
    ELSE {"ok", "RsyncError", "MalformedInput"}

-----------------------------------------------------------------------------
Init ==
    /\ photometry_filenames \in Listings(PhotometryNames, MaxPhotometry)
    /\ behaviour_filenames \in Listings(BehaviourNames, MaxBehaviour)
    /\ coresponding_files = <<>>
    /\ bi = 1
    /\ sessions = <<>>
    /\ sync_errors = <<>>
    /\ li = 1
    /\ calls = <<>>
    /\ exc = "none"
    /\ missing_sessions = <<>>
    /\ printed = <<>>
    /\ reported = FALSE
    /\ conv = <<>>

(* One iteration of the pairing loop, lines 48-52 *)
PairStep ==
    /\ exc = "none"
    /\ bi <= Len(behaviour_filenames)
    /\ LET b_file_name == behaviour_filenames[bi] IN
       IF GetFileInfoRaises(b_file_name)
       THEN /\ exc' = "IndexError"
            /\ UNCHANGED <<coresponding_files, bi>>
       ELSE LET found == NextMatch(_get_file_info(b_file_name), photometry_filenames, 1) IN
            IF found.raised
            THEN /\ exc' = "IndexError"
                 /\ UNCHANGED <<coresponding_files, bi>>
            ELSE /\ coresponding_files' =
                        Append(coresponding_files, <<b_file_name, found.value>>)
                 /\ bi' = bi + 1
                 /\ UNCHANGED exc
    /\ UNCHANGED <<photometry_filenames, behaviour_filenames, sessions, sync_errors,
                   li, calls, missing_sessions, printed, reported, conv>>

PairingDone == exc = "none" /\ bi > Len(behaviour_filenames)

LoopVars == <<photometry_filenames, behaviour_filenames, coresponding_files, bi,
              missing_sessions, printed, reported, conv>>

(* Faulty variant: the failing pair is dropped without a trace *)
RecordSyncError_dropped(errors, b_file_name, p_file_name) == errors

(* sync_errors.append((b_file_name, p_file_name)), line 73 *)
RecordSyncError(errors, b_file_name, p_file_name) ==
    Append(errors, <<b_file_name, p_file_name>>)

(* Faulty variant: break instead of continue *)
Continue_break(i) == Len(coresponding_files) + 1

(* Faulty variant: the same pair is tried again *)
Continue_retry(i) == i

(* continue: go to next file pair, line 74 *)
Continue(i) == i + 1

(* session.photo_data = photo_data; session.photo_data['aligner'] = aligner; *)
(* sessions.append(session), lines 76-78                                     *)
AttachAndAppend(good, b_file_name, p_file_name, sampling_rate, aligner) ==
    Append(good, [file_name |-> b_file_name,
                  photo_data |-> [file_name |-> p_file_name,
                                  sampling_rate |-> sampling_rate,
                                  aligner |-> aligner]])

(* A record of one Rsync_aligner(...) call, line 70 *)
Call(i, b_file_name, p_file_name, result) ==
    [index |-> i, b |-> b_file_name, p |-> p_file_name, result |-> result]

(* Session(...) raises while loading the behaviour file, line 61 *)
LoadSessionFails ==
    /\ PairingDone /\ ~reported
    /\ li <= Len(coresponding_files)
    /\ exc' = "SessionLoadError"
    /\ UNCHANGED <<sessions, sync_errors, li, calls>>
    /\ UNCHANGED LoopVars

(* One iteration of the load/align loop, lines 59-78, the behaviour file   *)
(* having loaded.                                                          *)
LoadStep ==
    /\ PairingDone /\ ~reported
    /\ li <= Len(coresponding_files)
    /\ LET b_file_name == coresponding_files[li][1]
           p_file_name == coresponding_files[li][2]
       IN
       IF ~Truthy(p_file_name)
       THEN \* no photometry file: the session is loaded and dropped
            /\ li' = li + 1
            /\ UNCHANGED <<sessions, sync_errors, exc, calls>>
       ELSE
         \/ \* import_ppd raises, line 64
            /\ exc' = "PhotometryLoadError"
            /\ UNCHANGED <<sessions, sync_errors, li, calls>>
         \/ \E sampling_rate \in SamplingRates :
              IF sampling_rate = 0
              THEN \* 1000/photo_data['sampling_rate'], line 71, before the call
                   /\ exc' = "ZeroDivisionError"
                   /\ UNCHANGED <<sessions, sync_errors, li, calls>>
              ELSE \E result \in Rsync_aligner(MsPerSecond \div sampling_rate) :
                   /\ calls' = Append(calls, Call(li, b_file_name, p_file_name, result))
                   /\ \/ /\ result = "RsyncError"
                         /\ sync_errors' = RecordSyncError(sync_errors, b_file_name, p_file_name)
                         /\ li' = Continue(li)
                         /\ UNCHANGED <<sessions, exc>>
                      \/ /\ result = "MalformedInput"
                         /\ exc' = "MalformedInput"
                         /\ UNCHANGED <<sessions, sync_errors, li>>
                      \/ /\ result = "ok"
                         /\ \E aligner \in FittedModels :
                              sessions' = AttachAndAppend(sessions, b_file_name,
                                              p_file_name, sampling_rate, aligner)
                         /\ li' = li + 1
                         /\ UNCHANGED <<sync_errors, exc>>
    /\ UNCHANGED LoopVars

(* Lines of the report *)
Line(kind, n, b, p) == [kind |-> kind, n |-> n, b |-> b, p |-> p]

(* Faulty variant: every behaviour file is listed as missing *)
RECURSIVE MissingOf_all(_)
MissingOf_all(pairs) ==
    IF pairs = <<>> THEN <<>>
    ELSE <<Head(pairs)[1]>> \o MissingOf_all(Tail(pairs))

RECURSIVE MissingOf(_)
MissingOf(pairs) ==
    IF pairs = <<>> THEN <<>>
    ELSE (IF Head(pairs)[2] = None THEN <<Head(pairs)[1]>> ELSE <<>>)
         \o MissingOf(Tail(pairs))

MissingLines(missing) ==
    IF missing = <<>> THEN <<>>
    ELSE <<Line("missing_header", 0, None, None)>>
         \o [k \in 1..Len(missing) |-> Line("missing", 0, missing[k], None)]

SyncErrorLines(errors) ==
    IF errors = <<>> THEN <<>>
    ELSE <<Line("sync_header", 0, None, None)>>
         \o [k \in 1..Len(errors) |-> Line("sync_error", 0, errors[k][1], errors[k][2])]

(* The report, lines 80-93 *)
Report ==
    /\ PairingDone /\ ~reported
    /\ li > Len(coresponding_files)
    /\ missing_sessions' = MissingOf(coresponding_files)
    /\ printed' = <<Line("count", Len(sessions), None, None)>>
                  \o MissingLines(MissingOf(coresponding_files))
                  \o SyncErrorLines(sync_errors)
    /\ reported' = TRUE
    /\ UNCHANGED <<photometry_filenames, behaviour_filenames, coresponding_files, bi,
                   sessions, sync_errors, li, calls, exc, conv>>

(* A conversion through the aligner of a good session, as in               *)
(* average_response, and back.                                             *)
Convert ==
    /\ reported
    /\ \E s \in 1..Len(sessions), t \in Times :
         LET aligner == sessions[s].photo_data.aligner IN
         conv' = <<[session |-> s, t |-> t,
                    a_to_b |-> A_to_B(aligner, t),
                    b_to_a |-> B_to_A(aligner, t),
                    there_and_back |-> B_to_A(aligner, A_to_B(aligner, t)),
                    back_and_there |-> A_to_B(aligner, B_to_A(aligner, t))]>>
    /\ UNCHANGED <<photometry_filenames, behaviour_filenames, coresponding_files, bi,
                   sessions, sync_errors, li, calls, exc, missing_sessions,
                   printed, reported>>

Next == PairStep \/ LoadSessionFails \/ LoadStep \/ Report \/ Convert

Spec == Init /\ [][Next]_vars

-----------------------------------------------------------------------------
(* Vocabulary of the properties *)

Range(seq) == {seq[k] : k \in DOMAIN seq}

PairingFinished == bi > Len(behaviour_filenames)

LoopFinished == PairingFinished /\ li > Len(coresponding_files)

(* f is a name with the (subject ID, date) key of the behaviour name b *)
SharesKey(b, f) == HasDash(f) /\ _get_file_info(f) = _get_file_info(b)

StemLen == SubjectLen + 1 + DateLen

(* Two names of the form ssss-dddddddddd... that differ at most after the *)
(* subject and the date                                                   *)
SameStem(x, y) ==
    /\ Len(x) >= StemLen /\ Len(y) >= StemLen
    /\ SubSeq(x, 1, StemLen) = SubSeq(y, 1, StemLen)
    /\ x[SubjectLen + 1] = "-"
    /\ \A k \in 1..SubjectLen : x[k] /= "-"

CallsFor(i) == {k \in 1..Len(calls) : calls[k].index = i}

Attempts(i) == Cardinality(CallsFor(i))

ResultsOf(b, p) == {calls[k].result : k \in {m \in 1..Len(calls) :
                                               calls[m].b = b /\ calls[m].p = p}}

SessionFiles == {sessions[k].file_name : k \in 1..Len(sessions)}

PairedPhotometry == {coresponding_files[k][2] : k \in 1..Len(coresponding_files)}

AllNames == Range(behaviour_filenames) \cup Range(photometry_filenames)

-----------------------------------------------------------------------------
C2_FirstFoundWins ==
    \A i \in 1..Len(coresponding_files) :
       LET b == coresponding_files[i][1]
           p == coresponding_files[i][2]
       IN  /\ p /= None =>
                \E j \in 1..Len(photometry_filenames) :
                   /\ photometry_filenames[j] = p
                   /\ \A k \in 1..(j - 1) : ~SharesKey(b, photometry_filenames[k])
           /\ (b = N_m001_txt /\ photometry_filenames = <<N_m001_ppd, N_m001b_ppd>>)
                => p = N_m001_ppd
           /\ (b = N_m001_txt /\ photometry_filenames = <<N_m001b_ppd, N_m001_ppd>>)
                => p = N_m001b_ppd

C2_Witness ==
    /\ PairingFinished
    /\ photometry_filenames = <<N_m001b_ppd, N_m001_ppd>>
    /\ \E i \in 1..Len(coresponding_files) :
          coresponding_files[i] = <<N_m001_txt, N_m001b_ppd>>

(* C3 as stated: for any two listings the pairing raises no error, and a   *)
(* behaviour name whose key no photometry name shares gets the entry None. *)
C3_NeverRaises ==
    /\ exc /= "IndexError"
    /\ \A i \in 1..Len(coresponding_files) :
         (~\E j \in 1..Len(photometry_filenames) :
              SharesKey(coresponding_files[i][1], photometry_filenames[j]))
         => coresponding_files[i][2] = None

(* C3 amended: the pairing raises no error when every name holds a '-',    *)
(* names shorter than four characters included; a behaviour name whose key *)
(* no photometry name shares gets the entry None; an IndexError means that *)
(* a name without '-' is among the listings, and the pairing never ends    *)
(* normally when a behaviour name has no '-'.                              *)
C3_RaisesOnlyWithoutDash ==
    /\ (\A f \in AllNames : HasDash(f)) => exc /= "IndexError"
    /\ exc = "IndexError" => \E f \in AllNames : ~HasDash(f)
    /\ PairingFinished => \A b \in Range(behaviour_filenames) : HasDash(b)
    /\ \A i \in 1..Len(coresponding_files) :
         (~\E j \in 1..Len(photometry_filenames) :
              SharesKey(coresponding_files[i][1], photometry_filenames[j]))
         => coresponding_files[i][2] = None

C3_Witness ==
    /\ PairingFinished
    /\ behaviour_filenames = <<N_short, N_m002_txt>>
    /\ photometry_filenames = <<N_m001_ppd, N_short>>
    /\ coresponding_files = <<<<N_short, N_short>>, <<N_m002_txt, None>>>>

(* Pair i succeeded, is missing, failed to align *)
IsSuccess(i) == coresponding_files[i][1] \in SessionFiles
IsMissing(i) == coresponding_files[i][1] \in Range(missing_sessions)
IsFailure(i) == coresponding_files[i] \in Range(sync_errors)

OneOfThree(x, y, z) == (x /\ ~y /\ ~z) \/ (~x /\ y /\ ~z) \/ (~x /\ ~y /\ z)

OkCalls == {k \in 1..Len(calls) : calls[k].result = "ok"}

(* C4: once the loop has finished and the report is made, every behaviour  *)
(* name of the pairing is in exactly one of sessions (with photometry data *)
(* and an aligner attached), missing_sessions and sync_errors; nothing is  *)
(* listed twice or dropped; the printed count is the number of aligner     *)
(* constructions that succeeded.                                           *)
C4_ThreeOutcomes ==
    reported =>
      /\ \A i \in 1..Len(coresponding_files) :
            OneOfThree(IsSuccess(i), IsMissing(i), IsFailure(i))
      /\ Len(sessions) + Len(missing_sessions) + Len(sync_errors)
            = Len(coresponding_files)
      /\ \A k \in 1..Len(sessions) :
            /\ sessions[k].photo_data.aligner \in FittedModels
            /\ <<sessions[k].file_name, sessions[k].photo_data.file_name>>
                  \in Range(coresponding_files)
      /\ printed[1] = Line("count", Cardinality(OkCalls), None, None)

C4_Witness ==
    /\ reported
    /\ Len(sessions) = 1 /\ Len(missing_sessions) = 1 /\ Len(sync_errors) = 1

(* The step is a construction that ends with RsyncError *)
SignalsRsyncError ==
    /\ Len(calls') = Len(calls) + 1
    /\ calls'[Len(calls')].result = "RsyncError"

(* C5: when construction for a pair signals RsyncError, the pair goes to   *)
(* sync_errors under both names, no session is added or changed, and the   *)
(* loop goes on with the next pair as if the failing pair had not been     *)
(* there: nothing that a later iteration reads is changed, and no          *)
(* exception leaves the loop.                                              *)
C5_RsyncErrorSkipsOnlyThatPair ==
    [][SignalsRsyncError =>
         /\ sync_errors' = Append(sync_errors, coresponding_files[li])
         /\ coresponding_files[li][2] /= None
         /\ sessions' = sessions
         /\ li' = li + 1
         /\ exc' = "none" /\ ~reported'
         /\ UNCHANGED <<coresponding_files, photometry_filenames,
                        behaviour_filenames>>]_vars

C5_Witness ==
    /\ reported
    /\ \E k, m \in 1..Len(calls) :
          /\ k < m
          /\ calls[k].result = "RsyncError" /\ calls[m].result = "ok"
          /\ <<calls[k].b, calls[k].p>> \in Range(sync_errors)
          /\ calls[m].b \in SessionFiles

(* C6 as stated: a behaviour name without photometry file is reported, and *)
(* so is a photometry name that no behaviour name is paired with.          *)
C6_MissingBothDirections ==
    reported =>
      /\ \A i \in 1..Len(coresponding_files) :
            coresponding_files[i][2] = None =>
               Line("missing", 0, coresponding_files[i][1], None) \in Range(printed)
      /\ \A j \in 1..Len(photometry_filenames) :
            photometry_filenames[j] \notin PairedPhotometry =>
               \E k \in 1..Len(printed) :
                  photometry_filenames[j] \in {printed[k].b, printed[k].p}

(* C7 as stated: no failure of one pair ends the batch; the loop goes on   *)
(* whatever a pair's loading or construction raises.                       *)
C7_NoPairFailureEndsBatch ==
    exc \notin {"SessionLoadError", "PhotometryLoadError", "ZeroDivisionError",
                "MalformedInput"}

C9_RoundTrip ==
    /\ [](conv /= <<>> =>
            /\ conv[1].there_and_back = conv[1].t
            /\ conv[1].back_and_there = conv[1].t)
    /\ [][conv' /= conv => sessions' = sessions]_vars

C9_Witness ==
    /\ conv /= <<>>
    /\ conv[1].t = Rat(4000, 1)
    /\ sessions[conv[1].session].photo_data.aligner.a = Rat(2, 3)
    /\ conv[1].a_to_b /= conv[1].t

=============================================================================
